---- MODULE Spec2Model ----
(***************************************************************************)
(* Model of runique/aliase_change.py: the batch refactoring script that    *)
(* replaces verbose collection types by aliases and inserts the imports.   *)
(*                                                                         *)
(* Text is modelled as a sequence of tokens.  A token is a run of          *)
(* characters that the script's regular expressions never split: every     *)
(* literal of every pattern is a whole number of tokens, the characters    *)
(* '{', '}', ';' and ',' and the white space characters ' ' and '\n' are   *)
(* tokens of their own, and no alias name occurs inside another token.     *)
(* A path is a sequence of segments and a segment a sequence of atoms      *)
(* ("mysrc" is <<"my", "src">>), so that a substring test on the path's    *)
(* string can start inside a segment.                                      *)
(***************************************************************************)
EXTENDS Integers, Sequences, FiniteSets, TLC

VARIABLES
    root,             \* sys.argv[1], as path segments
    tree,             \* the regular files under root (relative paths)
    fs,               \* file system: full path -> content
    noread,           \* files whose read_text raises
    nowrite,          \* files whose write_text raises
    dry_run,          \* "--dry-run" in sys.argv
    pc,               \* position in main / refactor_file
    rust_files,       \* main: rust_files
    idx,              \* main: index of the loop over rust_files (1-based)
    results,          \* main: results
    result,           \* refactor_file: result
    content,          \* refactor_file: content
    original_content, \* refactor_file: original_content
    imports_to_add,   \* refactor_file: imports_to_add
    pending,          \* refactor_file: rest of sorted(imports_to_add)
    import_line,      \* refactor_file: import_line of the last iteration
    arg_content,      \* content handed to the last import iteration
    report,           \* print_report: the totals printed
    run,              \* number of the current invocation of the script
    writes,           \* paths given to write_text in this invocation
    start_fs,         \* file system when this invocation started
    prev              \* the previous invocation: its flag, start and results

vars == <<root, tree, fs, noread, nowrite, dry_run, pc, rust_files, idx,
          results, result, content, original_content, imports_to_add,
          pending, import_line, arg_content, report, run, writes, start_fs,
          prev>>

-----------------------------------------------------------------------------
(* Sequences *)

Range(s) == {s[i] : i \in 1..Len(s)}

RECURSIVE Flatten(_)
Flatten(ss) == IF ss = <<>> THEN <<>> ELSE Head(ss) \o Flatten(Tail(ss))

RECURSIVE SumSeq(_)
SumSeq(s) == IF s = <<>> THEN 0 ELSE Head(s) + SumSeq(Tail(s))

Occurrences(t, s) == Cardinality({i \in 1..Len(s) : s[i] = t})

-----------------------------------------------------------------------------
(* Characters of tokens *)

NL == "\n"
SP == " "
\* the characters \s matches
WhiteSpace == {SP, NL}

UA == "use crate::utils::aliases::"
PRELUDE == "use crate::prelude::*"

\* tokens whose first character is a word character (\w)
StartsWord == {"HashMap<String,", "String>", "Vec<String>>", "Value>",
               "IndexMap<String,", "Box<dyn", "FormField>>",
               "Vec<FlashMessage>", "StrMap", "StrVecMap", "JsonMap",
               "FieldsMap", "Messages", UA, PRELUDE, "use foo::bar",
               "use baz::qux", "My", "fn f() ->", "HashMap::new()",
               "pub type"}
\* tokens whose last character is a word character
EndsWord == {"Box<dyn", "StrMap", "StrVecMap", "JsonMap", "FieldsMap",
             "Messages", "use foo::bar", "use baz::qux", "My", "// header",
             "pub type"}
\* tokens that start with "use "
StartsUse == {UA, PRELUDE, "use foo::bar", "use baz::qux"}
\* tokens that start with "//"
StartsComment == {"//", "// header"}

-----------------------------------------------------------------------------
(* Regular expressions (module re), on tokens *)

\* a pattern is a sequence of elements: a literal token, a class c (negated
\* when n) under * or +, or \b
Lit(t) == [k |-> "lit", t |-> t, c |-> {}, n |-> FALSE]
Star(c) == [k |-> "star", t |-> "", c |-> c, n |-> FALSE]
Plus(c) == [k |-> "plus", t |-> "", c |-> c, n |-> FALSE]
StarNot(c) == [k |-> "star", t |-> "", c |-> c, n |-> TRUE]
WB == [k |-> "wb", t |-> "", c |-> {}, n |-> FALSE]

InClass(e, t) == (t \in e.c) # e.n

Lits(ts) == [i \in 1..Len(ts) |-> Lit(ts[i])]

\* \b at position i: exactly one of the characters around it is a word one
Boundary(s, i) ==
    LET before == i > 1 /\ s[i - 1] \in EndsWord
        after == i <= Len(s) /\ s[i] \in StartsWord
    IN before # after

\* the positions where a match of pat that starts at i can end
RECURSIVE MatchEnds(_, _, _)
MatchEnds(pat, s, i) ==
    IF pat = <<>> THEN {i}
    ELSE LET e == Head(pat)
             here == i <= Len(s)
         IN CASE e.k = "lit" ->
                     IF here /\ s[i] = e.t THEN MatchEnds(Tail(pat), s, i + 1)
                     ELSE {}
              [] e.k = "star" ->
                     MatchEnds(Tail(pat), s, i)
                     \cup (IF here /\ InClass(e, s[i])
                           THEN MatchEnds(pat, s, i + 1) ELSE {})
              [] e.k = "plus" ->
                     IF here /\ InClass(e, s[i])
                     THEN MatchEnds(<<[e EXCEPT !.k = "star"]>> \o Tail(pat),
                                    s, i + 1)
                     ELSE {}
              [] e.k = "wb" ->
                     IF Boundary(s, i) THEN MatchEnds(Tail(pat), s, i) ELSE {}

\* the end of the match the engine takes at i: quantifiers are greedy
MatchEnd(pat, s, i) ==
    LET ends == MatchEnds(pat, s, i)
    IN CHOOSE e \in ends : \A f \in ends : f <= e

\* re.search(pattern, content) is not None
Search(pat, s) == \E i \in 1..(Len(s) + 1) : MatchEnds(pat, s, i) # {}

\* len(re.findall(pattern, content)): leftmost matches that do not overlap,
\* counted from position i on
FindAll(pat, s) ==
    LET from[i \in 1..(Len(s) + 1)] ==
            IF i > Len(s) THEN 0
            ELSE IF MatchEnds(pat, s, i) # {}
                 THEN 1 + from[MatchEnd(pat, s, i)]
                 ELSE from[i + 1]
    IN from[1]

\* re.sub(pattern, new_name, content), built from position i on
Sub(pat, repl, s) ==
    LET from[i \in 1..(Len(s) + 1)] ==
            IF i > Len(s) THEN <<>>
            ELSE IF MatchEnds(pat, s, i) # {}
                 THEN <<repl>> \o from[MatchEnd(pat, s, i)]
                 ELSE <<s[i]>> \o from[i + 1]
    IN from[1]

-----------------------------------------------------------------------------
(* str methods *)

\* content.split('\n')
RECURSIVE SplitFrom(_, _, _)
SplitFrom(s, i, cur) ==
    IF i > Len(s) THEN <<cur>>
    ELSE IF s[i] = NL THEN <<cur>> \o SplitFrom(s, i + 1, <<>>)
         ELSE SplitFrom(s, i + 1, Append(cur, s[i]))

Split(s) == SplitFrom(s, 1, <<>>)

\* '\n'.join(lines)
RECURSIVE Join(_)
Join(lines) ==
    IF lines = <<>> THEN <<>>
    ELSE IF Len(lines) = 1 THEN lines[1]
         ELSE lines[1] \o <<NL>> \o Join(Tail(lines))

\* line.strip(): neither the first nor the last token is white space
RECURSIVE LStrip(_)
LStrip(line) ==
    IF line # <<>> /\ Head(line) \in WhiteSpace THEN LStrip(Tail(line))
    ELSE line

RECURSIVE RStrip(_, _)
RStrip(line, chars) ==
    IF line # <<>> /\ line[Len(line)] \in chars
    THEN RStrip(SubSeq(line, 1, Len(line) - 1), chars)
    ELSE line

Strip(line) == RStrip(LStrip(line), WhiteSpace)

\* s.replace(old, ""), old one token
Remove(s, old) == SelectSeq(s, LAMBDA t : t # old)

\* list.insert(i, x), i counted from 0
Insert(lines, i, x) ==
    SubSeq(lines, 1, i) \o <<x>> \o SubSeq(lines, i + 1, Len(lines))

\* the index of x in the table order
Rank(x, order) == CHOOSE i \in 1..Len(order) : order[i] = x

\* a < b for sequences compared item by item, as str and list compare
RECURSIVE LexLess(_, _, _)
LexLess(a, b, order) ==
    IF a = <<>> THEN b # <<>>
    ELSE IF b = <<>> THEN FALSE
         ELSE IF Head(a) = Head(b) THEN LexLess(Tail(a), Tail(b), order)
              ELSE Rank(Head(a), order) < Rank(Head(b), order)

\* sorted(S): the item at k has k - 1 items of S below it
Sorted(S, order) ==
    [k \in 1..Cardinality(S) |->
        CHOOSE x \in S :
            Cardinality({y \in S : LexLess(y, x, order)}) = k - 1]

-----------------------------------------------------------------------------
(* Configuration *)

Import(name) == <<UA, name, ";">>

REPLACEMENTS == <<
    [pattern |-> <<WB, Lit("HashMap<String,"), Star(WhiteSpace),
                   Lit("String>")>>,
     replacement |-> "StrMap",
     import |-> Import("StrMap"),
     description |-> "HashMap<String, String> -> StrMap"],
    [pattern |-> <<WB, Lit("HashMap<String,"), Star(WhiteSpace),
                   Lit("Vec<String>>")>>,
     replacement |-> "StrVecMap",
     import |-> Import("StrVecMap"),
     description |-> "HashMap<String, Vec<String>> -> StrVecMap"],
    [pattern |-> <<WB, Lit("HashMap<String,"), Star(WhiteSpace),
                   Lit("Value>")>>,
     replacement |-> "JsonMap",
     import |-> Import("JsonMap"),
     description |-> "HashMap<String, Value> -> JsonMap"],
    [pattern |-> <<WB, Lit("IndexMap<String,"), Star(WhiteSpace),
                   Lit("Box<dyn"), Plus(WhiteSpace), Lit("FormField>>")>>,
     replacement |-> "FieldsMap",
     import |-> Import("FieldsMap"),
     description |-> "IndexMap<String, Box<dyn FormField>> -> FieldsMap"],
    [pattern |-> <<WB, Lit("Vec<FlashMessage>")>>,
     replacement |-> "Messages",
     import |-> Import("Messages"),
     description |-> "Vec<FlashMessage> -> Messages"] >>

\* the tokens of the import lines, in code point order
ImportTokenOrder ==
    <<";", "FieldsMap", "JsonMap", "Messages", "StrMap", "StrVecMap", UA>>

\* the path segments of the model, in code point order
SegmentOrder ==
    <<(<<"README", ".md">>), (<<"aliases">>), (<<"app">>),
      (<<"definition", ".rs">>), (<<"field", ".rs">>), (<<"forms">>),
      (<<"lib", ".rs">>), (<<"main", ".rs">>), (<<"my", "src">>),
      (<<"runique">>), (<<"src">>), (<<"t", ".rs">>), (<<"target">>),
      (<<"tests">>), (<<"tests", ".rs">>), (<<"utils">>)>>

IGNORE_FILES == <<
    <<"src", "/", "utils", "/", "aliases", "/", "definition", ".rs">>,
    <<"src", "/", "lib", ".rs">> >>

-----------------------------------------------------------------------------
(* Paths *)

\* str(file_path)
RECURSIVE PathStr(_)
PathStr(p) ==
    IF p = <<>> THEN <<>>
    ELSE IF Len(p) = 1 THEN p[1]
         ELSE p[1] \o <<"/">> \o PathStr(Tail(p))

\* ignore in str(file_path)
IsSubstring(sub, s) ==
    \E i \in 1..(Len(s) - Len(sub) + 1) : SubSeq(s, i, i + Len(sub) - 1) = sub

\* fnmatch(name, "*.rs")
MatchesRs(name) == name # <<>> /\ name[Len(name)] = ".rs"

\* root_path.rglob("*.rs")
RGlobRs(root_path, files) ==
    {root_path \o rel : rel \in {r \in files : MatchesRs(r[Len(r)])}}

\* find_rust_files with the ignore list matched against the path relative
\* to the root's parent only when it starts there
find_rust_files_PrefixIgnore(root_path, files) ==
    LET kept == {p \in RGlobRs(root_path, files) :
                    /\ ~(<<"target">> \in Range(p) \/ <<"tests">> \in Range(p))
                    /\ ~(\E i \in 1..Len(IGNORE_FILES) :
                            LET g == IGNORE_FILES[i]
                                t == PathStr(Tail(p))
                            IN Len(t) >= Len(g) /\ SubSeq(t, 1, Len(g)) = g)}
    IN Sorted(kept, SegmentOrder)

find_rust_files(root_path, files) ==
    LET kept == {file_path \in RGlobRs(root_path, files) :
                    /\ ~(<<"target">> \in Range(file_path)
                         \/ <<"tests">> \in Range(file_path))
                    /\ ~(\E i \in 1..Len(IGNORE_FILES) :
                            IsSubstring(IGNORE_FILES[i], PathStr(file_path)))}
    IN Sorted(kept, SegmentOrder)

-----------------------------------------------------------------------------
(* Imports *)

\* has_existing_import without the pattern of the brace import
has_existing_import_NoBrace(text, line) ==
    LET clean_import == RStrip(Remove(line, UA), {";"})
        patterns == {
            <<Lit(UA)>> \o Lits(clean_import) \o <<Lit(";")>>,
            <<Lit(PRELUDE), Lit(";")>> }
    IN \E pattern \in patterns : Search(pattern, text)

\* has_existing_import with a brace import matched on one line only
has_existing_import_OneLine(text, line) ==
    LET clean_import == RStrip(Remove(line, UA), {";"})
        patterns == {
            <<Lit(UA)>> \o Lits(clean_import) \o <<Lit(";")>>,
            <<Lit(UA), Lit("{"), StarNot({"}", NL})>> \o Lits(clean_import)
                \o <<StarNot({"}", NL}), Lit("}"), Lit(";")>>,
            <<Lit(PRELUDE), Lit(";")>> }
    IN \E pattern \in patterns : Search(pattern, text)

has_existing_import(text, line) ==
    LET clean_import == RStrip(Remove(line, UA), {";"})
        patterns == {
            <<Lit(UA)>> \o Lits(clean_import) \o <<Lit(";")>>,
            <<Lit(UA), Lit("{"), StarNot({"}"})>> \o Lits(clean_import)
                \o <<StarNot({"}"}), Lit("}"), Lit(";")>>,
            <<Lit(PRELUDE), Lit(";")>> }
    IN \E pattern \in patterns : Search(pattern, text)

\* line.strip().startswith(prefix), for the tokens that start with prefix
StripStartsWith(line, starting) ==
    Strip(line) # <<>> /\ Head(Strip(line)) \in starting

\* LastUseIndex stopping at the first line that starts with "use "
LastUseIndex_First(lines) ==
    LET uses == {i \in 0..(Len(lines) - 1) :
                    StripStartsWith(lines[i + 1], StartsUse)}
    IN IF uses = {} THEN -1
       ELSE CHOOSE i \in uses : \A j \in uses : i <= j

\* the last i (from 0) whose line starts with "use ", or -1
LastUseIndex(lines) ==
    LET uses == {i \in 0..(Len(lines) - 1) :
                    StripStartsWith(lines[i + 1], StartsUse)}
    IN IF uses = {} THEN -1
       ELSE CHOOSE i \in uses : \A j \in uses : j <= i

\* the first i (from 0) whose line is neither a comment nor blank, or 0
HeaderIndex(lines) ==
    LET code == {i \in 0..(Len(lines) - 1) :
                    /\ ~StripStartsWith(lines[i + 1], StartsComment)
                    /\ Strip(lines[i + 1]) # <<>>}
    IN IF code = {} THEN 0
       ELSE CHOOSE i \in code : \A j \in code : i <= j

\* the lines of the file with the import line put in
InsertImport(lines, line) ==
    LET last_use_index == LastUseIndex(lines)
        insert_index == HeaderIndex(lines)
    IN IF last_use_index >= 0
       THEN Insert(lines, last_use_index + 1, line)
       ELSE Insert(Insert(lines, insert_index, line), insert_index + 1, <<>>)

\* lines = content.split('\n'), then '\n'.join(lines)
add_import_to_file(text, line) ==
    IF has_existing_import(text, line) THEN text
    ELSE CHOOSE joined \in {Join(new_lines) :
                    new_lines \in {InsertImport(lines, line) :
                                      lines \in {Split(text)}}} : TRUE

-----------------------------------------------------------------------------
(* refactor_file, one step per block of the function *)

NewResult(path) ==
    [path |-> path, changes |-> <<>>, imports_added |-> <<>>,
     modified |-> FALSE, error |-> "none"]

\* the file of the current iteration of main's loop
file_path == rust_files[idx]

\* re.sub(pattern, new_name, content, count=1)
RECURSIVE SubFirstFrom(_, _, _, _)
SubFirstFrom(pat, repl, s, i) ==
    IF i > Len(s) THEN <<>>
    ELSE IF MatchEnds(pat, s, i) # {}
         THEN <<repl>> \o SubSeq(s, MatchEnd(pat, s, i), Len(s))
         ELSE <<s[i]>> \o SubFirstFrom(pat, repl, s, i + 1)

\* ApplyRule with only the first match replaced
ApplyRule_FirstOnly(st, replacement) ==
    LET matches == FindAll(replacement.pattern, st.content)
    IN IF matches > 0
       THEN [content |-> SubFirstFrom(replacement.pattern,
                                      replacement.replacement, st.content, 1),
             changes |-> Append(st.changes,
                                [description |-> replacement.description,
                                 count |-> matches]),
             imports |-> st.imports \cup {replacement.import}]
       ELSE st

\* ApplyRule with the change counted once, however many matches
ApplyRule_CountsOne(st, replacement) ==
    LET matches == FindAll(replacement.pattern, st.content)
    IN IF matches > 0
       THEN [content |-> Sub(replacement.pattern, replacement.replacement,
                             st.content),
             changes |-> Append(st.changes,
                                [description |-> replacement.description,
                                 count |-> 1]),
             imports |-> st.imports \cup {replacement.import}]
       ELSE st

\* one iteration of the loop over REPLACEMENTS on st = (content, changes,
\* imports_to_add)
ApplyRule(st, replacement) ==
    LET matches == FindAll(replacement.pattern, st.content)
    IN IF matches > 0
       THEN [content |-> Sub(replacement.pattern, replacement.replacement,
                             st.content),
             changes |-> Append(st.changes,
                                [description |-> replacement.description,
                                 count |-> matches]),
             imports |-> st.imports \cup {replacement.import}]
       ELSE st

\* the loop over REPLACEMENTS from rule r on; each iteration works on the
\* value x that the one before has left
RECURSIVE ApplyFrom(_, _)
ApplyFrom(st, r) ==
    IF r > Len(REPLACEMENTS) THEN st
    ELSE CHOOSE out \in {ApplyFrom(x, r + 1) :
                            x \in {ApplyRule(st, REPLACEMENTS[r])}} : TRUE

\* the number of tokens of the new content that reach the disk before a
\* write_text raises
MaxPartial == 1

\* what a write_text that raises can leave in the file: the old content (open
\* failed) or, the file once opened and truncated, the part of the new content
\* that reached the disk before the error
FailedWriteOutcomes(old, new) ==
    {old} \cup {SubSeq(new, 1, n) : n \in 0..MaxPartial}

\* the file is done: main appends the result and goes to the next file
Return(r) ==
    /\ result' = r
    /\ results' = Append(results, r)
    /\ idx' = idx + 1
    /\ pc' = "loop"

\* ReadError with the loop of main left at the failure
ReadError_Breaks ==
    /\ pc = "loop"
    /\ idx <= Len(rust_files)
    /\ file_path \in noread
    /\ result' = [NewResult(file_path) EXCEPT !.error = "read"]
    /\ results' = Append(results, result')
    /\ idx' = Len(rust_files) + 1
    /\ UNCHANGED <<root, tree, fs, noread, nowrite, dry_run, pc, rust_files,
                   content, original_content, imports_to_add, pending,
                   import_line, arg_content, report, run, writes, start_fs,
                   prev>>

ReadError ==
    /\ pc = "loop"
    /\ idx <= Len(rust_files)
    /\ file_path \in noread
    /\ Return([NewResult(file_path) EXCEPT !.error = "read"])
    /\ UNCHANGED <<root, tree, fs, noread, nowrite, dry_run, rust_files,
                   content, original_content, imports_to_add, pending,
                   import_line, arg_content, report, run, writes, start_fs,
                   prev>>

ReadOk ==
    /\ pc = "loop"
    /\ idx <= Len(rust_files)
    /\ file_path \notin noread
    /\ result' = NewResult(file_path)
    /\ content' = fs[file_path]
    /\ original_content' = fs[file_path]
    /\ imports_to_add' = {}
    /\ pending' = <<>>
    /\ import_line' = <<>>
    /\ arg_content' = <<>>
    /\ pc' = "rules"
    /\ UNCHANGED <<root, tree, fs, noread, nowrite, dry_run, rust_files, idx,
                   results, report, run, writes, start_fs, prev>>

ApplyReplacements ==
    /\ pc = "rules"
    /\ \E st \in {ApplyFrom([content |-> content, changes |-> result.changes,
                             imports |-> imports_to_add], 1)} :
          /\ content' = st.content
          /\ result' = [result EXCEPT !.changes = st.changes]
          /\ imports_to_add' = st.imports
          /\ pending' = Sorted(st.imports, ImportTokenOrder)
    /\ pc' = "imports"
    /\ UNCHANGED <<root, tree, fs, noread, nowrite, dry_run, rust_files, idx,
                   results, original_content, import_line, arg_content,
                   report, run, writes, start_fs, prev>>

\* one iteration of the loop over sorted(imports_to_add)
AddImport ==
    /\ pc = "imports"
    /\ pending # <<>>
    /\ import_line' = Head(pending)
    /\ arg_content' = content
    /\ pending' = Tail(pending)
    /\ IF ~has_existing_import(content, Head(pending))
       THEN /\ content' = add_import_to_file(content, Head(pending))
            /\ result' = [result EXCEPT
                             !.imports_added = Append(@, Head(pending))]
       ELSE UNCHANGED <<content, result>>
    /\ UNCHANGED <<root, tree, fs, noread, nowrite, dry_run, pc, rust_files,
                   idx, results, original_content, imports_to_add, report,
                   run, writes, start_fs, prev>>

\* ModifiedDryRun with the write not skipped
ModifiedDryRun_Writes ==
    /\ pc = "imports"
    /\ pending = <<>>
    /\ content # original_content
    /\ dry_run
    /\ fs' = [fs EXCEPT ![file_path] = content]
    /\ Return([result EXCEPT !.modified = TRUE])
    /\ UNCHANGED <<root, tree, noread, nowrite, dry_run, rust_files,
                   content, original_content, imports_to_add, pending,
                   import_line, arg_content, report, run, writes, start_fs,
                   prev>>

Unmodified ==
    /\ pc = "imports"
    /\ pending = <<>>
    /\ content = original_content
    /\ Return(result)
    /\ UNCHANGED <<root, tree, fs, noread, nowrite, dry_run, rust_files,
                   content, original_content, imports_to_add, pending,
                   import_line, arg_content, report, run, writes, start_fs,
                   prev>>

ModifiedDryRun ==
    /\ pc = "imports"
    /\ pending = <<>>
    /\ content # original_content
    /\ dry_run
    /\ Return([result EXCEPT !.modified = TRUE])
    /\ UNCHANGED <<root, tree, fs, noread, nowrite, dry_run, rust_files,
                   content, original_content, imports_to_add, pending,
                   import_line, arg_content, report, run, writes, start_fs,
                   prev>>

WriteOk ==
    /\ pc = "imports"
    /\ pending = <<>>
    /\ content # original_content
    /\ ~dry_run
    /\ file_path \notin nowrite
    /\ fs' = [fs EXCEPT ![file_path] = content]
    /\ writes' = Append(writes, file_path)
    /\ Return([result EXCEPT !.modified = TRUE])
    /\ UNCHANGED <<root, tree, noread, nowrite, dry_run, rust_files, content,
                   original_content, imports_to_add, pending, import_line,
                   arg_content, report, run, start_fs, prev>>

WriteError ==
    /\ pc = "imports"
    /\ pending = <<>>
    /\ content # original_content
    /\ ~dry_run
    /\ file_path \in nowrite
    /\ \E left \in FailedWriteOutcomes(fs[file_path], content) :
          fs' = [fs EXCEPT ![file_path] = left]
    /\ writes' = Append(writes, file_path)
    /\ Return([result EXCEPT !.modified = TRUE, !.error = "write"])
    /\ UNCHANGED <<root, tree, noread, nowrite, dry_run, rust_files, content,
                   original_content, imports_to_add, pending, import_line,
                   arg_content, report, run, start_fs, prev>>

-----------------------------------------------------------------------------
(* main and print_report *)

Roots == {<<(<<"runique">>), (<<"src">>)>>, <<(<<"app">>)>>,
          <<(<<"tests">>), (<<"src">>)>>}

\* a root_path that does not exist
MissingRoot == <<(<<"nowhere">>)>>

Exists(root_path) == root_path \in Roots

PathError ==
    /\ pc = "start"
    /\ ~Exists(root)
    /\ pc' = "exit1"
    /\ UNCHANGED <<root, tree, fs, noread, nowrite, dry_run, rust_files, idx,
                   results, result, content, original_content,
                   imports_to_add, pending, import_line, arg_content, report,
                   run, writes, start_fs, prev>>

Scan ==
    /\ pc = "start"
    /\ Exists(root)
    /\ rust_files' = find_rust_files(root, tree)
    /\ results' = <<>>
    /\ idx' = 1
    /\ pc' = "loop"
    /\ UNCHANGED <<root, tree, fs, noread, nowrite, dry_run, result, content,
                   original_content, imports_to_add, pending, import_line,
                   arg_content, report, run, writes, start_fs, prev>>

print_report(rs) ==
    [total_files |-> Len(rs),
     modified_files |-> Cardinality({i \in 1..Len(rs) : rs[i].modified}),
     total_changes |->
        SumSeq([i \in 1..Len(rs) |->
                    SumSeq([j \in 1..Len(rs[i].changes) |->
                                rs[i].changes[j].count])]),
     errors |-> SelectSeq(rs, LAMBDA r : r.error # "none")]

Report ==
    /\ pc = "loop"
    /\ idx > Len(rust_files)
    /\ report' = print_report(results)
    /\ pc' = "done"
    /\ UNCHANGED <<root, tree, fs, noread, nowrite, dry_run, rust_files, idx,
                   results, result, content, original_content,
                   imports_to_add, pending, import_line, arg_content, run,
                   writes, start_fs, prev>>

\* the number of invocations of the script in a behaviour
MaxRuns == 2

\* the script is run again, as its report asks after a dry run: "relancez sans
\* --dry-run"
Rerun ==
    /\ pc = "done"
    /\ run < MaxRuns
    /\ run' = run + 1
    /\ dry_run' = FALSE
    /\ prev' = [run |-> run, dry_run |-> dry_run, start_fs |-> start_fs,
                results |-> results, writes |-> writes]
    /\ start_fs' = fs
    /\ writes' = <<>>
    /\ pc' = "start"
    /\ rust_files' = <<>>
    /\ idx' = 1
    /\ results' = <<>>
    /\ result' = NewResult(<<>>)
    /\ content' = <<>>
    /\ original_content' = <<>>
    /\ imports_to_add' = {}
    /\ pending' = <<>>
    /\ import_line' = <<>>
    /\ arg_content' = <<>>
    /\ report' = print_report(<<>>)
    /\ UNCHANGED <<root, tree, fs, noread, nowrite>>

-----------------------------------------------------------------------------
(* The corpus *)

\* a state before the first invocation: the files of tr under rt hold
\* contents[rel]; reading fails for nr, writing for nw
Start(rt, tr, contents, nr, nw, d) ==
    /\ root = rt
    /\ tree = tr
    /\ fs = [p \in {rt \o rel : rel \in tr} |->
                contents[SubSeq(p, Len(rt) + 1, Len(p))]]
    /\ noread = nr
    /\ nowrite = nw
    /\ dry_run = d
    /\ pc = "start"
    /\ rust_files = <<>>
    /\ idx = 1
    /\ results = <<>>
    /\ result = NewResult(<<>>)
    /\ content = <<>>
    /\ original_content = <<>>
    /\ imports_to_add = {}
    /\ pending = <<>>
    /\ import_line = <<>>
    /\ arg_content = <<>>
    /\ report = print_report(<<>>)
    /\ run = 1
    /\ writes = <<>>
    /\ start_fs = fs
    /\ prev = [run |-> 0, dry_run |-> d, start_fs |-> fs, results |-> <<>>,
               writes |-> <<>>]

\* the spec's example file
Example ==
    <<"use foo::bar", ";", NL, "fn f() ->", SP, "HashMap<String,", SP,
      "String>", SP, "{", SP, "HashMap::new()", SP, "}">>

\* a file that uses every rule but the first
AllRules ==
    <<"Vec<FlashMessage>", SP, "HashMap<String,", SP, "Vec<String>>", SP,
      "IndexMap<String,", SP, "Box<dyn", SP, "FormField>>", SP,
      "HashMap<String,", "Value>", NL>>

MainRs == <<(<<"main", ".rs">>)>>
LibRs == <<(<<"lib", ".rs">>)>>

\* the files a tree is drawn from, with their contents
Corpus ==
    (MainRs :> Example)
    @@ (LibRs :> <<"HashMap<String,", "String>", NL>>)
    @@ (<<(<<"tests">>), (<<"t", ".rs">>)>> :>
            <<"HashMap<String,", SP, "String>", NL>>)
    @@ (<<(<<"target">>), (<<"main", ".rs">>)>> :> AllRules)
    @@ (<<(<<"utils">>), (<<"aliases">>), (<<"definition", ".rs">>)>> :>
            <<"pub type", SP, "StrMap", SP, "=", SP, "HashMap<String,", SP,
              "String>", ";", NL>>)
    @@ (<<(<<"forms">>), (<<"field", ".rs">>)>> :>
            <<PRELUDE, ";", NL>> \o AllRules)
    @@ (<<(<<"tests", ".rs">>)>> :> <<"fn f() ->", SP, "StrMap", NL>>)
    @@ (<<(<<"my", "src">>), (<<"lib", ".rs">>)>> :>
            <<"//", SP, "HashMap<String,", NL, "String>", NL>>)
    @@ (<<(<<"README", ".md">>)>> :> <<"HashMap<String,", "String>", NL>>)

\* the files of the trees of Spec
BatchFiles ==
    {MainRs, LibRs, <<(<<"forms">>), (<<"field", ".rs">>)>>,
     <<(<<"tests">>), (<<"t", ".rs">>)>>}

\* the number of files whose read or write fails
MaxFaults == 2

\* a batch: any tree of BatchFiles, any files failing
Init ==
    \E rt \in Roots \cup {MissingRoot}, tr \in SUBSET BatchFiles,
       d \in BOOLEAN :
        /\ rt = MissingRoot => tr = {}
        /\ \E nr \in SUBSET {rt \o rel : rel \in tr} :
            \E nw \in SUBSET ({rt \o rel : rel \in tr} \ nr) :
                /\ Cardinality(nr \cup nw) <= MaxFaults
                /\ Start(rt, tr, Corpus, nr, nw, d)

Next ==
    \/ PathError
    \/ Scan
    \/ ReadError
    \/ ReadOk
    \/ ApplyReplacements
    \/ AddImport
    \/ Unmodified
    \/ ModifiedDryRun
    \/ WriteOk
    \/ WriteError
    \/ Report
    \/ Rerun

Spec == Init /\ [][Next]_vars

\* main runs to its end: nothing but the script itself takes its steps
FairSpec == Spec /\ WF_vars(Next)

-----------------------------------------------------------------------------
(* find_rust_files on any tree *)

\* the number of files of a tree of SpecFind
MaxTree == 4

InitFind ==
    \E rt \in Roots \cup {MissingRoot}, tr \in SUBSET (DOMAIN Corpus) :
        /\ Cardinality(tr) <= MaxTree
        /\ rt = MissingRoot => tr = {}
        /\ Start(rt, tr, Corpus, {}, {}, TRUE)

NextFind ==
    \/ PathError
    \/ Scan

SpecFind == InitFind /\ [][NextFind]_vars

-----------------------------------------------------------------------------
(* refactor_file on any content: one file, no failure *)

\* a file starts with a header comment or none,
HeaderFragments == {<<>>, <<"// header", NL, NL>>}

\* goes on with one import or none,
ImportFragments ==
    {<<>>,
     <<"use foo::bar", ";", NL>>,
     <<UA, "StrMap", ";", NL>>,
     <<UA, "{", "JsonMap", ",", SP, "StrMap", "}", ";", NL>>,
     <<PRELUDE, ";", NL>>,
     <<UA, "{", NL, SP, "StrMap", ",", NL, "}", ";", NL>>}

\* has its first code line commented out or not,
OpenerFragments == {<<>>, <<"//", SP>>}

\* and goes on with code
BodyFragments ==
    {SubSeq(Example, 4, Len(Example)),
     <<"My", "HashMap<String,", "String>", SP, "HashMap<String,", NL,
       "String>", "Vec<FlashMessage>", NL>>,
     AllRules,
     <<"use baz::qux", ";", NL>>}

\* the number of code fragments of a content
MaxBody == 2

Contents ==
    {h \o i \o o \o Flatten(b) :
        h \in HeaderFragments, i \in ImportFragments, o \in OpenerFragments,
        b \in UNION {[1..m -> BodyFragments] : m \in 0..MaxBody}}

InitFile ==
    \E c \in Contents, d \in BOOLEAN :
        Start(<<(<<"app">>)>>, {MainRs}, (MainRs :> c), {}, {}, d)

NextFile ==
    \/ Scan
    \/ ReadOk
    \/ ApplyReplacements
    \/ AddImport
    \/ Unmodified
    \/ ModifiedDryRun
    \/ WriteOk
    \/ Report
    \/ Rerun

SpecFile == InitFile /\ [][NextFile]_vars

-----------------------------------------------------------------------------
(* Vocabulary of the properties *)

\* refactor_file has returned for the file it was called on
FileDone == pc \in {"loop", "done"} /\ result.path # <<>> /\ result.error # "read"

\* rule r has a change record in the current result
Fired(r) ==
    \E j \in 1..Len(result.changes) :
        result.changes[j].description = REPLACEMENTS[r].description

\* the alias a rule imports
Alias(r) == REPLACEMENTS[r].import[2]

\* the three forms of an import of alias name in text c
ExactForm(c, name) ==
    \E i \in 1..(Len(c) - 2) : c[i] = UA /\ c[i + 1] = name /\ c[i + 2] = ";"

\* a brace import of name from "{" at i + 1 to "}" at k
BraceAt(c, name, i, k) ==
    /\ c[i] = UA
    /\ c[i + 1] = "{"
    /\ c[k] = "}"
    /\ k < Len(c) /\ c[k + 1] = ";"
    /\ \A m \in (i + 2)..(k - 1) : c[m] # "}"
    /\ \E j \in (i + 2)..(k - 1) : c[j] = name

BraceForm(c, name) ==
    \E i \in 1..Len(c) : \E k \in (i + 2)..Len(c) : BraceAt(c, name, i, k)

WildcardForm(c) ==
    \E i \in 1..(Len(c) - 1) : c[i] = PRELUDE /\ c[i + 1] = ";"

\* the number of lines of text c that are exactly line
LineCount(line, c) == Occurrences(line, Split(c))

\* the positions of text c where the pattern of rule r matches
MatchStarts(r, c) ==
    {i \in 1..Len(c) : MatchEnds(REPLACEMENTS[r].pattern, c, i) # {}}

\* the fields of the File Results that a dry run and a real run share
Core(rs) ==
    [i \in 1..Len(rs) |->
        [path |-> rs[i].path, changes |-> rs[i].changes,
         imports_added |-> rs[i].imports_added, modified |-> rs[i].modified]]

-----------------------------------------------------------------------------
(* C1 *)

\* C1: idempotence. When the script has been run without --dry-run and no
\* read or write failed, the next run without --dry-run reports modified =
\* false, no change and no import for every file, and writes no file.
C1_Idempotence ==
    (prev.run >= 1 /\ ~prev.dry_run /\ ~dry_run /\ noread = {} /\ nowrite = {})
    => /\ writes = <<>>
       /\ fs = start_fs
       /\ result.changes = <<>> /\ result.imports_added = <<>>
       /\ \A i \in 1..Len(results) :
            /\ ~results[i].modified
            /\ results[i].changes = <<>>
            /\ results[i].imports_added = <<>>
            /\ results[i].error = "none"

\* a second real run has ended on a file that the first one rewrote, with an
\* import added
C1_Witness ==
    /\ pc = "done"
    /\ prev.run >= 1 /\ ~prev.dry_run
    /\ Len(results) = 1
    /\ Len(prev.results) = 1
    /\ prev.results[1].modified
    /\ Len(prev.results[1].changes) >= 2
    /\ prev.results[1].imports_added # <<>>

-----------------------------------------------------------------------------
(* C2 *)

\* C2: dry-run purity. A dry run writes no file and leaves every content as
\* it was, and the real run that follows it on the same corpus yields the
\* same sequence of File Results (path, changes, imports_added, modified).
C2_DryRunPurity ==
    /\ dry_run => (writes = <<>> /\ fs = start_fs)
    /\ (pc = "done" /\ prev.run >= 1 /\ prev.dry_run /\ ~dry_run)
       => (/\ prev.writes = <<>>
           /\ start_fs = prev.start_fs
           /\ Core(results) = Core(prev.results))

\* a real run that wrote a file has ended after a dry run of the same corpus
\* that reported the file as modified
C2_Witness ==
    /\ pc = "done"
    /\ prev.run >= 1 /\ prev.dry_run /\ ~dry_run
    /\ writes # <<>>
    /\ fs # start_fs
    /\ \E i \in 1..Len(prev.results) :
        prev.results[i].modified /\ prev.results[i].imports_added # <<>>

-----------------------------------------------------------------------------
(* C3 *)

\* C3: import non-duplication. When a rule fires in a file whose content
\* already holds the rule's import in one of the three forms (the exact
\* import, the alias inside a brace import, the prelude wildcard),
\* refactor_file neither lists the import in imports_added nor inserts a line
\* for it.
C3_NoDuplicateImport ==
    \A r \in 1..Len(REPLACEMENTS) :
        (/\ Fired(r)
         /\ \/ ExactForm(original_content, Alias(r))
            \/ BraceForm(original_content, Alias(r))
            \/ WildcardForm(original_content))
        => /\ REPLACEMENTS[r].import \notin Range(result.imports_added)
           /\ LineCount(REPLACEMENTS[r].import, content)
                = LineCount(REPLACEMENTS[r].import, original_content)

\* the first rule has fired in a file whose only import of StrMap is a brace
\* import, and the file is done
C3_Witness ==
    /\ FileDone
    /\ Fired(1)
    /\ BraceForm(original_content, "StrMap")
    /\ ~ExactForm(original_content, "StrMap")
    /\ ~WildcardForm(original_content)
    /\ result.modified

-----------------------------------------------------------------------------
(* C4 *)

\* the input holds matches of the pattern of rule r and of no other rule
OnlyRule(r, c) ==
    /\ MatchStarts(r, c) # {}
    /\ \A q \in 1..Len(REPLACEMENTS) : q # r => MatchStarts(q, c) = {}

\* rule r has the change record {description, count}
Recorded(r, count) ==
    \E j \in 1..Len(result.changes) :
        result.changes[j] = [description |-> REPLACEMENTS[r].description,
                             count |-> count]

\* C4 as stated: for an input with exactly k >= 1 occurrences of one rule's
\* pattern, the change record of the rule has count = k, and the output holds
\* exactly k instances of the replacement text and no match of the pattern.
C4_CountAccuracy_Original ==
    \A r \in 1..Len(REPLACEMENTS) :
        (FileDone /\ OnlyRule(r, original_content))
        => /\ Recorded(r, Cardinality(MatchStarts(r, original_content)))
           /\ MatchStarts(r, content) = {}
           /\ Occurrences(REPLACEMENTS[r].replacement, content)
                = Cardinality(MatchStarts(r, original_content))

\* C4, amended: for an input with exactly k >= 1 occurrences of one rule's
\* pattern, the change record of the rule has count = k, the output holds no
\* match of the pattern, and it holds k instances of the replacement text more
\* than the input, and one more when the rule's import line was inserted.
C4_CountAccuracy ==
    \A r \in 1..Len(REPLACEMENTS) :
        (FileDone /\ OnlyRule(r, original_content))
        => /\ Recorded(r, Cardinality(MatchStarts(r, original_content)))
           /\ Len(result.changes) = 1
           /\ MatchStarts(r, content) = {}
           /\ Occurrences(REPLACEMENTS[r].replacement, content)
                = Occurrences(REPLACEMENTS[r].replacement, original_content)
                  + Cardinality(MatchStarts(r, original_content))
                  + (IF REPLACEMENTS[r].import \in Range(result.imports_added)
                     THEN 1 ELSE 0)

\* a file with two occurrences of the first pattern only, and no import of
\* StrMap, is done: the import was inserted
C4_Witness ==
    /\ FileDone
    /\ OnlyRule(1, original_content)
    /\ Cardinality(MatchStarts(1, original_content)) = 2
    /\ Occurrences("StrMap", original_content) = 0
    /\ result.imports_added = <<Import("StrMap")>>

-----------------------------------------------------------------------------
(* C5 *)

HasSegment(p, name) == \E i \in 1..Len(p) : p[i] = <<name>>

Ignored(p) ==
    \E g \in 1..Len(IGNORE_FILES) :
        \E i \in 1..Len(PathStr(p)) :
            /\ i + Len(IGNORE_FILES[g]) - 1 <= Len(PathStr(p))
            /\ \A j \in 1..Len(IGNORE_FILES[g]) :
                PathStr(p)[i + j - 1] = IGNORE_FILES[g][j]

Excluded(p) == HasSegment(p, "target") \/ HasSegment(p, "tests") \/ Ignored(p)

HasRsExtension(p) == p[Len(p)][Len(p[Len(p)])] = ".rs"

\* C5: exclusion correctness. The list of find_rust_files holds no path with
\* a 'target' or 'tests' segment and no path whose string contains an entry
\* of the ignore list; every other file under the root with the source
\* extension is in the list.
C5_Exclusion ==
    pc # "start" /\ pc # "exit1"
    => /\ \A i \in 1..Len(rust_files) : ~Excluded(rust_files[i])
       /\ \A rel \in tree :
            (HasRsExtension(root \o rel) /\ ~Excluded(root \o rel))
            => root \o rel \in Range(rust_files)

\* a tree with a file under tests, a file that the ignore list matches
\* inside a segment, a file named tests.rs and main.rs has been scanned
C5_Witness ==
    /\ pc = "loop"
    /\ root = <<(<<"runique">>), (<<"src">>)>>
    /\ tree = {<<(<<"tests">>), (<<"t", ".rs">>)>>,
               <<(<<"my", "src">>), (<<"lib", ".rs">>)>>,
               <<(<<"tests", ".rs">>)>>, MainRs}
    /\ Len(rust_files) = 2

-----------------------------------------------------------------------------
(* C6 *)

\* main's loop: one File Result per file handled so far, in the order of the
\* list, and the list in ascending order of its paths
LoopOrder ==
    pc \in {"loop", "rules", "imports", "done"}
    => /\ Len(results) = idx - 1
       /\ idx <= Len(rust_files) + 1
       /\ \A i \in 1..Len(results) : results[i].path = rust_files[i]
       /\ \A i \in 1..Len(rust_files) : \A j \in (i + 1)..Len(rust_files) :
            LexLess(rust_files[i], rust_files[j], SegmentOrder)
       /\ pc = "done" => (/\ Len(results) = Len(rust_files)
                          /\ report.total_files = Len(rust_files)
                          /\ \A i \in 1..Len(results) :
                                (results[i].error = "read")
                                    = (rust_files[i] \in noread))

\* C6: batch fault isolation and ordering. Whatever files fail to read or to
\* write, the run handles the files one at a time in ascending order of their
\* paths, and ends at the report with one File Result per eligible file in
\* that order: a failure on a file never stops the files after it.
C6_FaultIsolation ==
    /\ []LoopOrder
    /\ (pc = "start" /\ Exists(root)) ~> (pc = "done")

\* a run of three files has ended: the write of the first failed, the read of
\* the second failed, the third was rewritten
C6_Witness ==
    /\ pc = "done"
    /\ Len(results) = 3
    /\ results[1].error = "write"
    /\ results[2].error = "read"
    /\ results[3].error = "none" /\ results[3].modified
    /\ report.modified_files = 2
    /\ Len(report.errors) = 2

-----------------------------------------------------------------------------
(* C7 *)

\* C7: write-error handling. When the write of a modified file fails, the
\* File Result has error set, modified = true and the changes and
\* imports_added computed before the write, and the content of the file is
\* left as it was before the call.
C7_WriteErrorKeepsFile ==
    [][(pc = "imports" /\ pc' = "loop" /\ result'.error = "write")
       => /\ result'.modified
          /\ result'.changes = result.changes
          /\ result'.imports_added = result.imports_added
          /\ results' = Append(results, result')
          /\ fs' = fs]_vars

-----------------------------------------------------------------------------
(* C8 *)

IsUseLine(line) == StripStartsWith(line, StartsUse)

HasUseLine(c) == \E i \in 1..Len(Split(c)) : IsUseLine(Split(c)[i])

\* the last iteration of the import loop inserted import_line in arg_content
Inserted ==
    /\ import_line # <<>>
    /\ result.imports_added # <<>>
    /\ result.imports_added[Len(result.imports_added)] = import_line

ExampleOutput ==
    <<"use foo::bar", ";", NL, UA, "StrMap", ";", NL, "fn f() ->", SP,
      "StrMap", SP, "{", SP, "HashMap::new()", SP, "}">>

\* C8: insertion after the last import. When the content has a line that
\* starts with 'use ' and the import is absent, the result is the lines of the
\* content, unchanged and in order, with the import as one new line right
\* after the last such line; the example file becomes its two lines with the
\* type replaced, the StrMap import between them, HashMap::new() untouched.
C8_InsertAfterLastUse ==
    /\ (Inserted /\ HasUseLine(arg_content))
       => LET old == Split(arg_content)
          IN \E last \in 1..Len(old) :
                /\ IsUseLine(old[last])
                /\ \A j \in (last + 1)..Len(old) : ~IsUseLine(old[j])
                /\ Split(content) = SubSeq(old, 1, last) \o <<import_line>>
                                    \o SubSeq(old, last + 1, Len(old))
    /\ (FileDone /\ original_content = Example)
       => /\ content = ExampleOutput
          /\ result.changes =
                <<[description |-> "HashMap<String, String> -> StrMap",
                   count |-> 1]>>
          /\ result.imports_added = <<Import("StrMap")>>
          /\ result.modified

\* an import has been inserted in a content with two lines that start with
\* 'use ', the last of them after a line of code
C8_Witness ==
    /\ Inserted
    /\ LET old == Split(arg_content)
       IN \E i \in 1..Len(old) : \E j \in (i + 2)..Len(old) :
            /\ IsUseLine(old[i])
            /\ IsUseLine(old[j])
            /\ ~IsUseLine(old[i + 1]) /\ Strip(old[i + 1]) # <<>>

-----------------------------------------------------------------------------
(* C9 *)

\* the only import of name in c is a brace import with a line break between
\* the opening brace and the name and between the name and the closing brace
MultiLineBraceOnly(c, name) ==
    /\ BraceForm(c, name)
    /\ ~ExactForm(c, name)
    /\ ~WildcardForm(c)
    /\ \A i \in 1..Len(c) : \A k \in (i + 2)..Len(c) :
        BraceAt(c, name, i, k)
        => \A j \in (i + 2)..(k - 1) :
              c[j] = name => /\ \E m \in (i + 2)..(j - 1) : c[m] = NL
                             /\ \E m \in (j + 1)..(k - 1) : c[m] = NL

\* C9 as stated: when the only import of a rule's alias is a brace import
\* spread over several lines, the import is not detected, and refactor_file
\* inserts the single import and lists it in imports_added.
C9_MultiLineBrace_Original ==
    \A r \in 1..Len(REPLACEMENTS) :
        (FileDone /\ Fired(r) /\ MultiLineBraceOnly(original_content, Alias(r)))
        => /\ REPLACEMENTS[r].import \in Range(result.imports_added)
           /\ LineCount(REPLACEMENTS[r].import, content) = 1

\* C9, amended: when the only import of a rule's alias is a brace import
\* spread over several lines, the import is detected (the pattern's [^}]* runs
\* over line breaks), and refactor_file neither inserts the single import nor
\* lists it in imports_added.
C9_MultiLineBrace ==
    \A r \in 1..Len(REPLACEMENTS) :
        (FileDone /\ Fired(r) /\ MultiLineBraceOnly(original_content, Alias(r)))
        => /\ REPLACEMENTS[r].import \notin Range(result.imports_added)
           /\ LineCount(REPLACEMENTS[r].import, content) = 0

\* the first rule has fired in a file whose only import of StrMap is a brace
\* import over three lines, and no import was added
C9_Witness ==
    /\ FileDone
    /\ Fired(1)
    /\ MultiLineBraceOnly(original_content, "StrMap")
    /\ result.modified
    /\ result.imports_added = <<>>

-----------------------------------------------------------------------------
(* C10 *)

IsHeaderLine(line) ==
    StripStartsWith(line, StartsComment) \/ Strip(line) = <<>>

\* imports_added is in ascending order
SortedImports(added) ==
    \A i \in 1..Len(added) : \A j \in (i + 1)..Len(added) :
        LexLess(added[i], added[j], ImportTokenOrder)

\* C10: insertion with no existing import. For a content with no line that
\* starts with 'use ', the import goes after all the leading comment and blank
\* lines, followed by one blank line, so that no leading comment line ends up
\* below it; several imports added to such a file end up as consecutive lines
\* in sorted order followed by a single blank line.
C10_InsertAfterHeader ==
    /\ (Inserted /\ ~HasUseLine(arg_content))
       => LET old == Split(arg_content)
          IN \E n \in 0..Len(old) :
                /\ \A i \in 1..n : IsHeaderLine(old[i])
                /\ n < Len(old) => ~IsHeaderLine(old[n + 1])
                /\ Split(content) = SubSeq(old, 1, n)
                                    \o <<import_line, <<>>>>
                                    \o SubSeq(old, n + 1, Len(old))
    /\ (FileDone /\ ~HasUseLine(original_content)
        /\ Len(result.imports_added) >= 2)
       => LET new == Split(content)
              m == Len(result.imports_added)
          IN /\ SortedImports(result.imports_added)
             /\ \E p \in 0..(Len(new) - m - 2) :
                   /\ SubSeq(new, p + 1, p + m) = result.imports_added
                   /\ new[p + m + 1] = <<>>
                   /\ new[p + m + 2] # <<>>

====
